---- MODULE Spec2Model ----
(***************************************************************************)
(* Tagged interval tree of src/treeInterval.c.                             *)
(*                                                                         *)
(* A node is a record [s, e, tag, ch]: interval[0], interval[1], the tag   *)
(* (NoTag for a NULL tag pointer) and the child array as a sequence.  The  *)
(* C code mutates nodes in place through pointers; every node is owned by  *)
(* one child array, so an in-place update of a child is the replacement of *)
(* that element of the sequence.  Array indices are 0-based as in the C    *)
(* code; element i of a child array is ch[i + 1].                          *)
(***************************************************************************)
EXTENDS Integers, Sequences, FiniteSets

VARIABLES tree, last, nops, ub

vars == <<tree, last, nops, ub>>

\* ------------------------------------------------------------------------
\* Bounds of the model
\* ------------------------------------------------------------------------
DomStart == 0
DomEnd == 3
MaxOps == 4
MaxOpsDeep == 6
MaxCalls == 2
MaxOpsHeap == 3
MaxOpsObserved == 4
MaxOpsText == 3
MaxOpsLayers == 5
MaxOpsVariants == 5
Margin == 1

Tags == {"x", "y"}
NoTag == "none"
FreedTag == "freed"

Coords == DomStart..DomEnd

\* Arguments a client may pass: the coordinates of the domain and some
\* outside it on either side.
ArgCoords == (DomStart - Margin)..(DomEnd + Margin)

\* Values a freed node's memory may read as.
Garbage == {DomStart, DomEnd}

\* ------------------------------------------------------------------------
\* Nodes and child arrays
\* ------------------------------------------------------------------------
Max(x, y) == IF x > y THEN x ELSE y
Min(x, y) == IF x < y THEN x ELSE y

createIntervalNode(start, end, tag) ==
    [s |-> start, e |-> end, tag |-> tag, ch |-> <<>>]

createTaggedIntervalTree(start, end) == createIntervalNode(start, end, NoTag)

\* A child pointer whose node was released by freeIntervalNode: its memory
\* reads as the garbage value g.
freeIntervalNode(g) == [s |-> g, e |-> g, tag |-> FreedTag, ch |-> <<>>]

\* A variant whose shift loop runs upwards, so that every slot after pos
\* gets the element that was at pos.
InsertAtShiftingUpwards(children, pos, x) ==
    SubSeq(children, 1, pos) \o <<x>>
        \o [k \in 1..(Len(children) - pos) |-> children[pos + 1]]

\* children[pos] = x after shifting the elements from pos on one place up.
InsertAt(children, pos, x) ==
    SubSeq(children, 1, pos) \o <<x>> \o SubSeq(children, pos + 1, Len(children))

\* Shift the elements after pos one place down and drop the last slot.
RemoveAt(children, pos) ==
    SubSeq(children, 1, pos) \o SubSeq(children, pos + 2, Len(children))

addChildToNode(node, child) == [node EXCEPT !.ch = Append(node.ch, child)]

\* ------------------------------------------------------------------------
\* findInsertionPoint: binary search by interval start
\* ------------------------------------------------------------------------
RECURSIVE fipLoop(_, _, _, _)
fipLoop(children, start, left, right) ==
    IF left > right THEN left
    ELSE LET mid == (left + right) \div 2 IN
         IF children[mid + 1].s = start THEN mid
         ELSE IF children[mid + 1].s < start
              THEN fipLoop(children, start, mid + 1, right)
              ELSE fipLoop(children, start, left, mid - 1)

findInsertionPoint(children, start) ==
    IF Len(children) = 0 THEN 0
    ELSE fipLoop(children, start, 0, Len(children) - 1)

\* The index of the first child that may overlap a range starting at pos:
\* the insertion point, stepped back by one when the previous child ends
\* after pos.
firstRelevantChild(children, pos) ==
    LET i == findInsertionPoint(children, pos) IN
    IF i > 0 /\ children[i].e > pos THEN i - 1 ELSE i

\* ------------------------------------------------------------------------
\* tryMergeWithNeighbors
\* ------------------------------------------------------------------------
\* The left neighbour children[index - 1] takes the end and the children of
\* the right neighbour children[index], which is freed and then removed from
\* the array.
absorbRightNeighbor(children, index, leftNeighbor) ==
    LET rightNeighbor == children[index + 1]
        left2 == [leftNeighbor EXCEPT
                    !.e = Max(leftNeighbor.e, rightNeighbor.e),
                    !.ch = leftNeighbor.ch \o rightNeighbor.ch]
    IN RemoveAt([children EXCEPT ![index] = left2,
                                 ![index + 1] = freeIntervalNode(DomStart)],
                index)

\* A variant that never merges, so that every added range gets its own node.
tryMergeWithNoNeighbor(node, newStart, newEnd, tag) ==
    [merged |-> FALSE, node |-> node]

tryMergeWithNeighbors(node, newStart, newEnd, tag) ==
    IF Len(node.ch) = 0 THEN [merged |-> FALSE, node |-> node]
    ELSE
    LET index == findInsertionPoint(node.ch, newStart)
        n == Len(node.ch)
        leftOk == /\ index > 0
                  /\ node.ch[index].tag # NoTag
                  /\ node.ch[index].tag = tag
                  /\ node.ch[index].e >= newStart
        rightOk == /\ index < n
                   /\ node.ch[index + 1].tag # NoTag
                   /\ node.ch[index + 1].tag = tag
                   /\ newEnd >= node.ch[index + 1].s
    IN
    IF leftOk THEN
        LET leftNeighbor == node.ch[index]
            left1 == [leftNeighbor EXCEPT !.e = Max(leftNeighbor.e, newEnd)]
            absorb == /\ index < n
                      /\ node.ch[index + 1].tag # NoTag
                      /\ node.ch[index + 1].tag = tag
                      /\ left1.e >= node.ch[index + 1].s
        IN
        IF absorb THEN
            [merged |-> TRUE,
             node |-> [node EXCEPT !.ch = absorbRightNeighbor(node.ch, index, left1)]]
        ELSE [merged |-> TRUE,
              node |-> [node EXCEPT !.ch[index] = left1]]
    ELSE IF rightOk THEN
        LET rightNeighbor == node.ch[index + 1] IN
        [merged |-> TRUE,
         node |-> [node EXCEPT
                     !.ch[index + 1].s = Min(rightNeighbor.s, newStart)]]
    ELSE [merged |-> FALSE, node |-> node]

\* ------------------------------------------------------------------------
\* addTagDFS
\* ------------------------------------------------------------------------
InsertPoint(index, start, end) == [index |-> index, start |-> start, end |-> end]

\* A variant that never finds the tag on the node.
hasSameTagNever(node, tag) == FALSE

\* Whether the node carries the tag that is being added.
hasSameTag(node, tag) == node.tag # NoTag /\ node.tag = tag

RECURSIVE addTagDFS(_, _, _, _)
RECURSIVE addSweep(_, _, _, _, _, _)

\* The while loop over the relevant children: ch is the child array, i the
\* cursor, currentPos the sweep position, pts the insert points so far.
addSweep(ch, tag, end, i, currentPos, pts) ==
    IF ~(i < Len(ch) /\ currentPos < end)
    THEN [ch |-> ch, currentPos |-> currentPos, pts |-> pts]
    ELSE
    LET child == ch[i + 1]
        hit == currentPos < child.e
        ch1 == IF hit
               THEN [ch EXCEPT ![i + 1] = addTagDFS(child, tag, currentPos, end)]
               ELSE ch
        pos1 == IF hit THEN child.e ELSE currentPos
        gap == /\ pos1 < end
               /\ i + 1 < Len(ch1)
               /\ pos1 < ch1[i + 2].s
        gapEnd == Min(ch1[i + 2].s, end)
    IN
    IF gap
    THEN addSweep(ch1, tag, end, i + 1, gapEnd,
                  Append(pts, InsertPoint(i + 1, pos1, gapEnd)))
    ELSE addSweep(ch1, tag, end, i + 1, pos1, pts)

\* The insertion loop, from insert point k down to the first.
RECURSIVE applyInsertPoints(_, _, _, _)
applyInsertPoints(node, pts, k, tag) ==
    IF k = 0 THEN node
    ELSE
    LET point == pts[k]
        m == tryMergeWithNeighbors(node, point.start, point.end, tag)
        newNode == createIntervalNode(point.start, point.end, tag)
    IN
    IF m.merged
    THEN applyInsertPoints(m.node, pts, k - 1, tag)
    ELSE applyInsertPoints(
             [node EXCEPT !.ch = InsertAt(node.ch, point.index, newNode)],
             pts, k - 1, tag)

addTagDFS(node, tag, start0, end0) ==
    LET start == Max(start0, node.s)
        end == Min(end0, node.e)
    IN
    IF start >= end THEN node
    ELSE IF hasSameTag(node, tag) THEN node
    ELSE IF Len(node.ch) = 0
         THEN addChildToNode(node, createIntervalNode(start, end, tag))
    ELSE
    LET m == tryMergeWithNeighbors(node, start, end, tag) IN
    IF m.merged THEN m.node
    ELSE
    LET i0 == firstRelevantChild(node.ch, start)
        before == i0 < Len(node.ch) /\ start < node.ch[i0 + 1].s
        firstEnd == Min(node.ch[i0 + 1].s, end)
        pts0 == IF before THEN <<InsertPoint(i0, start, firstEnd)>> ELSE <<>>
        pos0 == IF before THEN firstEnd ELSE start
        sw == addSweep(node.ch, tag, end, i0, pos0, pts0)
        pts == IF sw.currentPos < end
               THEN Append(sw.pts, InsertPoint(Len(sw.ch), sw.currentPos, end))
               ELSE sw.pts
    IN applyInsertPoints([node EXCEPT !.ch = sw.ch], pts, Len(pts), tag)

\* A variant that widens the root to hold a range reaching outside it.
addTagWidening(root, tag, start, end) ==
    IF start >= end THEN root
    ELSE addTagDFS([root EXCEPT !.s = Min(root.s, start), !.e = Max(root.e, end)],
                   tag, start, end)

addTag(root, tag, start, end) ==
    IF start >= end THEN root ELSE addTagDFS(root, tag, start, end)

\* ------------------------------------------------------------------------
\* checkTagDFS / hasTag
\* ------------------------------------------------------------------------
RECURSIVE checkTagDFS(_, _, _, _)
RECURSIVE checkSweep(_, _, _, _, _)

checkSweep(ch, tag, start, end, i) ==
    IF ~(i < Len(ch)) THEN FALSE
    ELSE
    LET child == ch[i + 1] IN
    IF end <= child.s \/ start >= child.e
    THEN checkSweep(ch, tag, start, end, i + 1)
    ELSE IF checkTagDFS(child, tag, start, end) THEN TRUE
    ELSE checkSweep(ch, tag, start, end, i + 1)

\* A variant that is content with a node that overlaps the range.
checkTagDFSOverlapping(node, tag, start, end) ==
    IF /\ node.tag # NoTag
       /\ node.tag = tag
       /\ node.s < end
       /\ node.e > start
    THEN TRUE
    ELSE checkSweep(node.ch, tag, start, end,
                    firstRelevantChild(node.ch, start))

checkTagDFS(node, tag, start, end) ==
    IF /\ node.tag # NoTag
       /\ node.tag = tag
       /\ node.s <= start
       /\ node.e >= end
    THEN TRUE
    ELSE checkSweep(node.ch, tag, start, end,
                    firstRelevantChild(node.ch, start))

hasTag(root, tag, start, end) == checkTagDFS(root, tag, start, end)

\* ------------------------------------------------------------------------
\* removeTagDFS
\* ------------------------------------------------------------------------
NO_OVERLAP == "NO_OVERLAP"
REMOVE_INTERVAL_INSIDE == "REMOVE_INTERVAL_INSIDE"
REMOVE_INTERVAL_LEFT == "REMOVE_INTERVAL_LEFT"
REMOVE_INTERVAL_RIGHT == "REMOVE_INTERVAL_RIGHT"
REMOVE_ENTIRE_NODE == "REMOVE_ENTIRE_NODE"
PROCESSED_CHILDREN == "PROCESSED_CHILDREN"

\* One invocation removeTagDFS(node, tag, start, end) as it is entered.
Invocation(node, start, end) ==
    [s |-> node.s, e |-> node.e, nodeTag |-> node.tag,
     start |-> start, end |-> end]

\* A RemoveResult together with the node as the call leaves it in memory.
\* ub: the call read the memory of a freed node.
\* call: the invocation that returns this result, what it returned and the
\* invocations it made, in the order in which it made them.
RemoveResult(call, node, removed, state, rem0, rem1, rehook, u, made) ==
    [node |-> node, removed |-> removed, state |-> state,
     rem0 |-> rem0, rem1 |-> rem1, rehookNodeList |-> rehook, ub |-> u,
     call |-> [entry |-> call, state |-> state, removed |-> removed,
               rem0 |-> rem0, rem1 |-> rem1, made |-> made]]

\* An invocation with the place of its call: "case" inside one of the four
\* cases of a node carrying the tag, "sweep" on a child of a node without
\* the tag, "remaining" on the same node for a child's remaining interval,
\* "removeTag" on the root; from is the start that the calling invocation
\* passed to its children.
Called(result, via, from) ==
    <<[via |-> via, from |-> from, call |-> result.call]>>

\* A variant that hands back the start it was given.
remainingStartKept(effectiveEnd, start) == start

\* Where the remaining interval of a node without the tag starts.
remainingStart(effectiveEnd, start) ==
    IF effectiveEnd > start THEN effectiveEnd ELSE start

\* Whether the binary search for start probes a freed element of children.
RECURSIVE searchReadsFreed(_, _, _, _)
searchReadsFreed(children, start, left, right) ==
    IF left > right THEN FALSE
    ELSE LET mid == (left + right) \div 2 IN
         IF children[mid + 1].tag = FreedTag THEN TRUE
         ELSE IF children[mid + 1].s = start THEN FALSE
         ELSE IF children[mid + 1].s < start
              THEN searchReadsFreed(children, start, mid + 1, right)
              ELSE searchReadsFreed(children, start, left, mid - 1)

\* Insert the rehook nodes j..Len(rehook) that pass the filter into ch, each
\* at its insertion point.  Returns the array and whether a freed element
\* was probed.
RECURSIVE insertRehookNodes(_, _, _, _, _, _)
insertRehookNodes(ch, rehook, j, filter, bound, u) ==
    IF j > Len(rehook) THEN [ch |-> ch, ub |-> u]
    ELSE
    LET rehookNode == rehook[j]
        keep == CASE filter = "all" -> TRUE
                  [] filter = "startAtOrAfter" -> rehookNode.s >= bound
                  [] filter = "endAtOrBefore" -> rehookNode.e <= bound
        insertPos == findInsertionPoint(ch, rehookNode.s)
        u1 == u \/ searchReadsFreed(ch, rehookNode.s, 0, Len(ch) - 1)
    IN
    IF keep
    THEN insertRehookNodes(InsertAt(ch, insertPos, rehookNode), rehook, j + 1,
                           filter, bound, u1)
    ELSE insertRehookNodes(ch, rehook, j + 1, filter, bound, u)

\* Remove the children at the recorded indices, last recorded first.
RECURSIVE removeChildrenAt(_, _, _)
removeChildrenAt(ch, childrenToRemove, k) ==
    IF k = 0 THEN ch
    ELSE removeChildrenAt(RemoveAt(ch, childrenToRemove[k]),
                          childrenToRemove, k - 1)

\* The nesting repair at the end of the sweep of a node without the tag.
RECURSIVE clipChildren(_, _, _)
clipChildren(ch, node, i) ==
    IF i > Len(ch) THEN ch
    ELSE
    LET c == ch[i]
        c1 == IF c.s < node.s THEN [c EXCEPT !.s = node.s] ELSE c
        c2 == IF c1.e > node.e THEN [c1 EXCEPT !.e = node.e] ELSE c1
    IN clipChildren([ch EXCEPT ![i] = c2], node, i + 1)

RECURSIVE removeTagDFS(_, _, _, _, _)
RECURSIVE removeInsideLoop(_, _, _, _, _, _, _)
RECURSIVE removeSideLoop(_, _, _, _, _, _, _, _, _, _)
RECURSIVE removeEntireLoop(_, _, _, _, _, _, _, _, _)
RECURSIVE removeSweep(_, _, _, _, _, _, _, _, _, _, _, _)

\* Case 1, a child that overlaps the removed part, after the call on it:
\* its rehook nodes are taken over when it was removed or split, and else
\* the child is kept among the inside nodes.
insideChild(acc, i, effectiveStart, childResult) ==
    LET acc1 == [acc EXCEPT !.ch[i + 1] = childResult.node,
                    !.ub = @ \/ childResult.ub,
                    !.calls = @ \o Called(childResult, "case", effectiveStart)]
    IN
    IF /\ childResult.removed
       /\ childResult.state \in {REMOVE_ENTIRE_NODE, REMOVE_INTERVAL_INSIDE}
    THEN [acc1 EXCEPT !.rehook = @ \o childResult.rehookNodeList]
    ELSE [acc1 EXCEPT !.insideNodes = Append(@, childResult.node)]

\* Case 1 loop.  acc: the child array as left in memory, the before, inside
\* and after collections and the rehook list.
removeInsideLoop(ch, tag, effectiveStart, effectiveEnd, g, i, acc) ==
    IF ~(i < Len(ch)) THEN acc
    ELSE IF ch[i + 1].e <= effectiveStart
    THEN removeInsideLoop(ch, tag, effectiveStart, effectiveEnd, g, i + 1,
             [acc EXCEPT !.beforeNodes = Append(@, ch[i + 1])])
    ELSE IF ch[i + 1].s >= effectiveEnd
    THEN removeInsideLoop(ch, tag, effectiveStart, effectiveEnd, g, i + 1,
             [acc EXCEPT !.afterNodes = Append(@, ch[i + 1])])
    ELSE removeInsideLoop(ch, tag, effectiveStart, effectiveEnd, g, i + 1,
             insideChild(acc, i, effectiveStart,
                 removeTagDFS(ch[i + 1], tag, effectiveStart, effectiveEnd, g)))

\* Cases 2 and 3, the rehook nodes of a child that was removed whole: those
\* outside the removed part are inserted into the child array.
sideRehook(ch1, left, effectiveStart, effectiveEnd, u1, childResult) ==
    insertRehookNodes(ch1, childResult.rehookNodeList, 1,
        IF left THEN "startAtOrAfter" ELSE "endAtOrBefore",
        IF left THEN effectiveEnd ELSE effectiveStart, u1)

\* Cases 2 and 3, what the loop goes on with after the call on a child that
\* is partly inside the removed part: the child array, the indices to
\* remove, the freed-memory flag and the invocations.
sideChild(ch1, i, childrenToRemove, u1, t1, inserted, childResult) ==
    IF childResult.removed /\ childResult.state = REMOVE_ENTIRE_NODE
    THEN [ch |-> inserted.ch, childrenToRemove |-> Append(childrenToRemove, i),
          ub |-> inserted.ub, calls |-> t1]
    ELSE [ch |-> ch1, childrenToRemove |-> childrenToRemove, ub |-> u1,
          calls |-> t1]

\* Cases 2 and 3, a child partly inside the removed part, after the call on
\* it.
sidePartial(ch, left, effectiveStart, effectiveEnd, i, childrenToRemove, u, t, childResult) ==
    sideChild([ch EXCEPT ![i + 1] = childResult.node], i, childrenToRemove,
        u \/ childResult.ub \/ ch[i + 1].tag = FreedTag,
        t \o Called(childResult, "case", effectiveStart),
        sideRehook([ch EXCEPT ![i + 1] = childResult.node], left,
            effectiveStart, effectiveEnd,
            u \/ childResult.ub \/ ch[i + 1].tag = FreedTag, childResult),
        childResult)

\* The loop of cases 2 and 3 from index i on, given the state the iteration
\* before left.
sideNext(next, tag, effectiveStart, effectiveEnd, g, left, i) ==
    removeSideLoop(next.ch, tag, effectiveStart, effectiveEnd, g, left, i,
        next.childrenToRemove, next.ub, next.calls)

\* Case 2 (left = TRUE) and case 3 (left = FALSE) loop over the child array
\* ch, which grows when rehook nodes are inserted.  A child inside the
\* removed part is freed and its index recorded; its pointer stays in the
\* array until the indices are removed.
removeSideLoop(ch, tag, effectiveStart, effectiveEnd, g, left, i, childrenToRemove, u, t) ==
    IF ~(i < Len(ch))
    THEN [ch |-> ch, childrenToRemove |-> childrenToRemove, ub |-> u,
          calls |-> t]
    ELSE IF (IF left THEN ch[i + 1].e <= effectiveEnd
                     ELSE ch[i + 1].s >= effectiveStart)
    THEN removeSideLoop([ch EXCEPT ![i + 1] = freeIntervalNode(g)], tag,
             effectiveStart, effectiveEnd, g, left, i + 1,
             Append(childrenToRemove, i), u \/ ch[i + 1].tag = FreedTag, t)
    ELSE IF (IF left THEN ch[i + 1].s < effectiveEnd
                     ELSE ch[i + 1].e > effectiveStart)
    THEN sideNext(
             sidePartial(ch, left, effectiveStart, effectiveEnd, i,
                 childrenToRemove, u, t,
                 removeTagDFS(ch[i + 1], tag, effectiveStart,
                     IF left THEN effectiveEnd ELSE ch[i + 1].e, g)),
             tag, effectiveStart, effectiveEnd, g, left, i + 1)
    ELSE removeSideLoop(ch, tag, effectiveStart, effectiveEnd, g, left, i + 1,
             childrenToRemove, u \/ ch[i + 1].tag = FreedTag, t)

\* Case 4, a child that overlaps the removed part, after the call on it:
\* the rehook list takes the child's rehook nodes or the child itself.
entireChild(rehook, u, t, effectiveStart, childResult) ==
    [rehook |-> IF childResult.removed
                THEN rehook \o childResult.rehookNodeList
                ELSE Append(rehook, childResult.node),
     ub |-> u \/ childResult.ub,
     calls |-> t \o Called(childResult, "case", effectiveStart)]

\* The loop of case 4 from index i on, given the state the iteration before
\* left.
entireNext(next, ch, tag, effectiveStart, effectiveEnd, g, i) ==
    removeEntireLoop(ch, tag, effectiveStart, effectiveEnd, g, i,
        next.rehook, next.ub, next.calls)

\* Case 4 loop: builds the rehook list from the children.
removeEntireLoop(ch, tag, effectiveStart, effectiveEnd, g, i, rehook, u, t) ==
    IF ~(i < Len(ch)) THEN [rehook |-> rehook, ub |-> u, calls |-> t]
    ELSE IF ch[i + 1].s < effectiveEnd /\ ch[i + 1].e > effectiveStart
    THEN entireNext(
             entireChild(rehook, u, t, effectiveStart,
                 removeTagDFS(ch[i + 1], tag, effectiveStart, effectiveEnd, g)),
             ch, tag, effectiveStart, effectiveEnd, g, i + 1)
    ELSE removeEntireLoop(ch, tag, effectiveStart, effectiveEnd, g, i + 1,
             Append(rehook, ch[i + 1]), u, t)

\* The sweep, a child that was removed or split: it is taken out of the
\* array, its rehook nodes are inserted and the cursor is set anew.
sweepRehook(ch1, i, effectiveStart, u1, t1, inserted, childResult) ==
    [ch |-> inserted.ch, ub |-> inserted.ub, calls |-> t1,
     i |-> firstRelevantChild(inserted.ch, effectiveStart),
     rem0 |-> childResult.rem0, rem1 |-> childResult.rem1]

\* The sweep, after the call on a child that reported a removal: the child
\* array, the cursor and the remaining interval to go on with.
sweepChild(ch1, i, effectiveStart, u1, t1, childResult) ==
    IF childResult.state \in {REMOVE_ENTIRE_NODE, REMOVE_INTERVAL_INSIDE}
    THEN sweepRehook(ch1, i, effectiveStart, u1, t1,
             insertRehookNodes(RemoveAt(ch1, i), childResult.rehookNodeList,
                 1, "all", 0, u1),
             childResult)
    ELSE [ch |-> ch1, ub |-> u1, calls |-> t1, i |-> i + 1,
          rem0 |-> childResult.rem0, rem1 |-> childResult.rem1]

\* The sweep from the cursor on after the call on the same node for the
\* remaining interval.
sweepRemaining(node, tag, start, end, effectiveStart, effectiveEnd, g, next, remainingResult) ==
    removeSweep(node, remainingResult.node.ch, tag, start, end,
        effectiveStart, effectiveEnd, g, next.i, TRUE,
        next.ub \/ remainingResult.ub,
        next.calls \o Called(remainingResult, "remaining", start))

\* The sweep after a child reported a removal: the call on the same node
\* when the remaining interval is not empty, then the next iteration.
sweepNext(node, tag, start, end, effectiveStart, effectiveEnd, g, next) ==
    IF next.rem0 < next.rem1
    THEN sweepRemaining(node, tag, start, end, effectiveStart, effectiveEnd,
             g, next,
             removeTagDFS([node EXCEPT !.ch = next.ch], tag, next.rem0,
                 next.rem1, g))
    ELSE removeSweep(node, next.ch, tag, start, end, effectiveStart,
             effectiveEnd, g, next.i, TRUE, next.ub, next.calls)

\* The sweep, after the call on a child that overlaps the range.
sweepCalled(node, ch1, tag, start, end, effectiveStart, effectiveEnd, g, i, removed, u1, t1, childResult) ==
    IF ~childResult.removed
    THEN removeSweep(node, ch1, tag, start, end, effectiveStart, effectiveEnd,
             g, i + 1, removed, u1, t1)
    ELSE sweepNext(node, tag, start, end, effectiveStart, effectiveEnd, g,
             sweepChild(ch1, i, effectiveStart, u1, t1, childResult))

\* The sweep, the call on a child that overlaps the range.
sweepCall(node, ch, tag, start, end, effectiveStart, effectiveEnd, g, i, removed, u, t, childResult) ==
    sweepCalled(node, [ch EXCEPT ![i + 1] = childResult.node], tag, start,
        end, effectiveStart, effectiveEnd, g, i, removed,
        u \/ childResult.ub \/ ch[i + 1].tag = FreedTag,
        t \o Called(childResult, "sweep", start), childResult)

\* The sweep over the children of a node that does not carry the tag.
removeSweep(node, ch, tag, start, end, effectiveStart, effectiveEnd, g, i, removed, u, t) ==
    IF ~(i < Len(ch))
    THEN [ch |-> ch, removed |-> removed, ub |-> u, calls |-> t]
    ELSE IF effectiveEnd <= ch[i + 1].s \/ effectiveStart >= ch[i + 1].e
    THEN removeSweep(node, ch, tag, start, end, effectiveStart, effectiveEnd,
             g, i + 1, removed, u \/ ch[i + 1].tag = FreedTag, t)
    ELSE sweepCall(node, ch, tag, start, end, effectiveStart, effectiveEnd,
             g, i, removed, u, t, removeTagDFS(ch[i + 1], tag, start, end, g))

\* Case 1: the nodes handed to the parent are the rehook nodes of the
\* children, the pre-tag node with the children before the removed part,
\* the children inside it and the post-tag node with the children after it.
removeInside(call, node, tag, end, effectiveStart, effectiveEnd, acc) ==
    RemoveResult(call, [node EXCEPT !.ch = acc.ch], TRUE,
        REMOVE_INTERVAL_INSIDE, end, end,
        acc.rehook
        \o (IF effectiveStart > node.s
            THEN <<[s |-> node.s, e |-> effectiveStart, tag |-> tag,
                    ch |-> acc.beforeNodes]>>
            ELSE acc.beforeNodes)
        \o acc.insideNodes
        \o (IF effectiveEnd < node.e
            THEN <<[s |-> effectiveEnd, e |-> node.e, tag |-> tag,
                    ch |-> acc.afterNodes]>>
            ELSE acc.afterNodes),
        acc.ub, acc.calls)

\* A variant of case 2 that reports the rest of the node as remaining.
removeLeftWithRest(call, node, end, effectiveEnd, lp) ==
    RemoveResult(call,
        [node EXCEPT !.s = effectiveEnd,
                     !.ch = removeChildrenAt(lp.ch, lp.childrenToRemove,
                                             Len(lp.childrenToRemove))],
        TRUE, REMOVE_INTERVAL_LEFT, effectiveEnd, node.e, <<>>, lp.ub,
        lp.calls)

\* Case 2: the node starts where the removed part ends.
removeLeft(call, node, end, effectiveEnd, lp) ==
    RemoveResult(call,
        [node EXCEPT !.s = effectiveEnd,
                     !.ch = removeChildrenAt(lp.ch, lp.childrenToRemove,
                                             Len(lp.childrenToRemove))],
        TRUE, REMOVE_INTERVAL_LEFT, effectiveEnd, end, <<>>, lp.ub, lp.calls)

\* Case 3: the node ends where the removed part starts.
removeRight(call, node, start, effectiveStart, lp) ==
    RemoveResult(call,
        [node EXCEPT !.e = effectiveStart,
                     !.ch = removeChildrenAt(lp.ch, lp.childrenToRemove,
                                             Len(lp.childrenToRemove))],
        TRUE, REMOVE_INTERVAL_RIGHT, start, effectiveStart, <<>>, lp.ub,
        lp.calls)

\* Case 4: the node goes and hands its children to the parent.
removeEntire(call, node, end, effectiveEnd, lp) ==
    RemoveResult(call, [node EXCEPT !.ch = <<>>], TRUE, REMOVE_ENTIRE_NODE,
        effectiveEnd, end, lp.rehook, lp.ub, lp.calls)

\* A node without the tag, after the sweep over its children: the nesting
\* repair and the result.
processedChildren(call, node, start, end, effectiveEnd, sw) ==
    RemoveResult(call, [node EXCEPT !.ch = clipChildren(sw.ch, node, 1)],
        sw.removed, PROCESSED_CHILDREN, remainingStart(effectiveEnd, start),
        end, <<>>, sw.ub, sw.calls)

\* removeTagDFS once the effective interval is known.
removeTagIn(node, tag, start, end, g, effectiveStart, effectiveEnd, call) ==
    IF effectiveStart >= effectiveEnd
    THEN RemoveResult(call, node, FALSE, NO_OVERLAP, start, end, <<>>, FALSE,
             <<>>)
    ELSE IF node.tag # NoTag /\ node.tag = tag
    THEN
        IF effectiveStart > node.s /\ effectiveEnd < node.e
        THEN removeInside(call, node, tag, end, effectiveStart, effectiveEnd,
                 removeInsideLoop(node.ch, tag, effectiveStart, effectiveEnd,
                     g, 0,
                     [ch |-> node.ch, beforeNodes |-> <<>>,
                      insideNodes |-> <<>>, afterNodes |-> <<>>,
                      rehook |-> <<>>, ub |-> FALSE, calls |-> <<>>]))
        ELSE IF effectiveStart <= node.s /\ effectiveEnd < node.e
        THEN removeLeft(call, node, end, effectiveEnd,
                 removeSideLoop(node.ch, tag, effectiveStart, effectiveEnd,
                     g, TRUE, 0, <<>>, FALSE, <<>>))
        ELSE IF effectiveStart > node.s /\ effectiveEnd >= node.e
        THEN removeRight(call, node, start, effectiveStart,
                 removeSideLoop(node.ch, tag, effectiveStart, effectiveEnd,
                     g, FALSE, 0, <<>>, FALSE, <<>>))
        ELSE removeEntire(call, node, end, effectiveEnd,
                 removeEntireLoop(node.ch, tag, effectiveStart, effectiveEnd,
                     g, 0, <<>>, FALSE, <<>>))
    ELSE processedChildren(call, node, start, end, effectiveEnd,
             removeSweep(node, node.ch, tag, start, end, effectiveStart,
                 effectiveEnd, g,
                 firstRelevantChild(node.ch, effectiveStart), FALSE, FALSE,
                 <<>>))

removeTagDFS(node, tag, start, end, g) ==
    removeTagIn(node, tag, start, end, g, Max(start, node.s),
        Min(end, node.e), Invocation(node, start, end))

\* removeTag: the root as the call leaves it, the returned flag, and whether
\* the call read freed memory.
\* A variant that turns down a range reaching outside the root's interval.
removeTagRejecting(root, tag, start, end, g) ==
    IF start >= end \/ start < root.s \/ end > root.e
    THEN [node |-> root, removed |-> FALSE, ub |-> FALSE, calls |-> <<>>]
    ELSE LET result == removeTagDFS(root, tag, start, end, g)
         IN [node |-> result.node, removed |-> result.removed,
             ub |-> result.ub, calls |-> Called(result, "removeTag", start)]

removeTag(root, tag, start, end, g) ==
    IF start >= end
    THEN [node |-> root, removed |-> FALSE, ub |-> FALSE, calls |-> <<>>]
    ELSE LET result == removeTagDFS(root, tag, start, end, g)
         IN [node |-> result.node, removed |-> result.removed,
             ub |-> result.ub, calls |-> Called(result, "removeTag", start)]

\* ------------------------------------------------------------------------
\* getFormattedText: the text with the tags of the tree spliced in
\* ------------------------------------------------------------------------
TagMarker(position, tag, isOpening) ==
    [position |-> position, tag |-> tag, isOpening |-> isOpening]

\* The markers in the order collectMarkers stores them: for every node with
\* a tag its opening and its closing marker, then those of its children.
RECURSIVE collectMarkers(_)
RECURSIVE collectMarkersOfChildren(_, _)
collectMarkersOfChildren(ch, i) ==
    IF i >= Len(ch) THEN <<>>
    ELSE collectMarkers(ch[i + 1]) \o collectMarkersOfChildren(ch, i + 1)
collectMarkers(node) ==
    (IF node.tag # NoTag
     THEN <<TagMarker(node.s, node.tag, TRUE), TagMarker(node.e, node.tag, FALSE)>>
     ELSE <<>>)
    \o collectMarkersOfChildren(node.ch, 0)

\* A variant that puts an opening marker before the others at its position.
compareMarkersOpeningFirst(markerA, markerB) ==
    IF markerA.position = markerB.position
    THEN (IF markerA.isOpening THEN -1 ELSE 1)
    ELSE markerA.position - markerB.position

compareMarkers(markerA, markerB) ==
    IF markerA.position = markerB.position
    THEN (IF markerA.isOpening THEN 1 ELSE -1)
    ELSE markerA.position - markerB.position

\* compareMarkers never answers 0 and answers the same for (a, b) and (b, a)
\* when both markers are at one position and of one kind, so it is no total
\* order and the C library promises nothing about the order of such markers.
\* An array is a possible result of qsort when no two of its elements stand
\* against an order on which both answers of compareMarkers agree.
InOrder(markerA, markerB) ==
    ~(compareMarkers(markerA, markerB) > 0 /\ compareMarkers(markerB, markerA) < 0)

RECURSIVE qsort(_)
qsort(markers) ==
    IF markers = <<>> THEN {<<>>}
    ELSE LET m == markers[Len(markers)] IN
         UNION {
           { InsertAt(q, k, m) :
               k \in { k \in 0..Len(q) :
                         /\ \A i \in 1..k : InOrder(q[i], m)
                         /\ \A i \in (k + 1)..Len(q) : InOrder(m, q[i]) } }
           : q \in qsort(SubSeq(markers, 1, Len(markers) - 1)) }

\* One piece of the result: a character of the text, <tag>, </tag> or the
\* terminating zero of a string.
Character(c) == [kind |-> "char", tag |-> NoTag, char |-> c]
OpeningTag(tag) == [kind |-> "open", tag |-> tag, char |-> 0]
ClosingTag(tag) == [kind |-> "close", tag |-> tag, char |-> 0]
Nul == [kind |-> "nul", tag |-> NoTag, char |-> 0]

\* The characters text[from], ..., text[to - 1] (0-based as in the C code)
\* as strncpy and strcpy copy them: the characters up to the end of the text
\* and, where strncpy is asked for more, zeros in their place.
TextPiece(text, from, to) ==
    [k \in 1..(to - from) |->
        IF from + k <= Len(text) THEN text[from + k] ELSE Nul]

\* The text a client formats: one character for every position up to the
\* end of the domain, the character at position p written as p.
Text == [p \in 1..DomEnd |-> Character(p - 1)]

\* The loop that copies the text up to each marker and then the marker.
RECURSIVE insertTags(_, _, _, _, _)
insertTags(markers, text, i, lastPosition, result) ==
    IF i >= Len(markers)
    THEN result \o TextPiece(text, lastPosition, Len(text))
    ELSE LET marker == markers[i + 1]
             textToAdd == marker.position - lastPosition
             copied == IF textToAdd > 0
                       THEN result \o TextPiece(text, lastPosition, marker.position)
                       ELSE result
             tagText == IF marker.isOpening THEN OpeningTag(marker.tag)
                        ELSE ClosingTag(marker.tag)
         IN insertTags(markers, text, i + 1, marker.position, Append(copied, tagText))

\* Whether the loop or the copy of the tail reads the text at an index
\* after that of its terminating zero.
readsOutsideText(markers, text) ==
    \E i \in 1..Len(markers) : markers[i].position > Len(text)

\* What a read outside the text may add to the result.
GarbageTails == {<<>>} \cup {<<Character(g)>> : g \in Garbage}

\* The string a buffer holds: its contents up to the first zero.
CString(buffer) ==
    LET zeros == {i \in 1..Len(buffer) : buffer[i] = Nul}
    IN IF zeros = {} THEN buffer
       ELSE SubSeq(buffer, 1, (CHOOSE i \in zeros : \A j \in zeros : i <= j) - 1)

\* The sorted marker array, the string returned and whether the text was
\* read outside its bounds, for every order qsort may leave the markers in.
Formatted(markers, text, outside) ==
    [markers |-> markers, text |-> text, outside |-> outside]

formattedTexts(root, text) ==
    UNION {
      LET outside == readsOutsideText(markers, text) IN
      { Formatted(markers,
                  CString(insertTags(markers, text, 0, 0, <<>>) \o tail),
                  outside)
        : tail \in (IF outside THEN GarbageTails ELSE {<<>>}) }
      : markers \in qsort(collectMarkers(root)) }

\* The strings getFormattedText(tree, text) may return.
getFormattedText(root, text) ==
    { formatted.text : formatted \in formattedTexts(root, text) }

\* ------------------------------------------------------------------------
\* The variant in src/unnamed/part_000
\* ------------------------------------------------------------------------
create_interval_node(a, b, tag) == [s |-> a, e |-> b, tag |-> tag, ch |-> <<>>]

initialize_tree(a, b) == create_interval_node(a, b, NoTag)

insert_node_at_position(children, child, position) ==
    SubSeq(children, 1, position) \o <<child>>
        \o SubSeq(children, position + 1, Len(children))

\* The node at the position is freed with its subtree and taken out of the
\* array; a position outside the array is ignored.
remove_node_at_position(children, position) ==
    IF position < 0 \/ position >= Len(children) THEN children
    ELSE SubSeq(children, 1, position)
             \o SubSeq(children, position + 2, Len(children))

RECURSIVE find_insertion_loop(_, _, _, _)
find_insertion_loop(children, value, l, r) ==
    IF l > r THEN l
    ELSE IF children[((l + r) \div 2) + 1].s = value THEN (l + r) \div 2
    ELSE IF children[((l + r) \div 2) + 1].s < value
    THEN find_insertion_loop(children, value, ((l + r) \div 2) + 1, r)
    ELSE find_insertion_loop(children, value, l, ((l + r) \div 2) - 1)

find_insertion_point(children, value) ==
    IF Len(children) = 0 THEN 0
    ELSE find_insertion_loop(children, value, 0, Len(children) - 1)

\* The insertion point of a, stepped back by one when the child before it
\* ends after a.
first_relevant_child(children, i, a) ==
    IF i > 0 /\ children[i].e > a THEN i - 1 ELSE i

\* try_merge_with_neighbors once the left neighbour children[i - 1] has
\* taken the end b1: it absorbs a right neighbour of the tag that it
\* reaches.
merge_with_right(children, i, tag, b1) ==
    IF /\ i < Len(children)
       /\ children[i + 1].tag # NoTag
       /\ children[i + 1].tag = tag
       /\ b1 >= children[i + 1].s
    THEN remove_node_at_position(
             [children EXCEPT ![i] = [@ EXCEPT
                 !.e = Max(b1, children[i + 1].e),
                 !.ch = @ \o children[i + 1].ch]],
             i)
    ELSE [children EXCEPT ![i] = [@ EXCEPT !.e = b1]]

merge_at(node, i, a, b, tag) ==
    IF /\ i > 0
       /\ node.ch[i].tag # NoTag
       /\ node.ch[i].tag = tag
       /\ node.ch[i].e >= a
    THEN [merged |-> TRUE,
          node |-> [node EXCEPT
                      !.ch = merge_with_right(node.ch, i, tag,
                                 Max(node.ch[i].e, b))]]
    ELSE IF /\ i < Len(node.ch)
            /\ node.ch[i + 1].tag # NoTag
            /\ node.ch[i + 1].tag = tag
            /\ b >= node.ch[i + 1].s
    THEN [merged |-> TRUE,
          node |-> [node EXCEPT !.ch[i + 1].s = Min(node.ch[i + 1].s, a)]]
    ELSE [merged |-> FALSE, node |-> node]

try_merge_with_neighbors(node, a, b, tag) ==
    IF Len(node.ch) = 0 THEN [merged |-> FALSE, node |-> node]
    ELSE merge_at(node, find_insertion_point(node.ch, a), a, b, tag)

RECURSIVE add_tag_dfs(_, _, _, _)
RECURSIVE add_tag_children(_, _, _, _, _, _)

\* The gap between children[i] and the next child, if the loop has not yet
\* reached b_prime: one more insertion point.
add_tag_gap(children, tag, b_prime, i, current, points) ==
    IF /\ i + 1 < Len(children)
       /\ current < b_prime
       /\ current < children[i + 2].s
    THEN add_tag_children(children, tag, b_prime, i + 1,
             Min(b_prime, children[i + 2].s),
             Append(points, [index |-> i + 1, start |-> current,
                             end |-> Min(b_prime, children[i + 2].s)]))
    ELSE add_tag_children(children, tag, b_prime, i + 1, current, points)

\* The loop over the overlapping children.
add_tag_children(children, tag, b_prime, i, current, points) ==
    IF ~(i < Len(children) /\ current < b_prime)
    THEN [ch |-> children, current |-> current, points |-> points]
    ELSE IF current < children[i + 1].e
    THEN add_tag_gap(
             [children EXCEPT
                 ![i + 1] = add_tag_dfs(children[i + 1], tag, current, b_prime)],
             tag, b_prime, i, children[i + 1].e, points)
    ELSE add_tag_gap(children, tag, b_prime, i, current, points)

\* One insertion point: the new node goes into the array unless a
\* neighbour took the range.
insert_new_node(node, point, tag, merge) ==
    IF merge.merged THEN merge.node
    ELSE [node EXCEPT !.ch = insert_node_at_position(node.ch,
             create_interval_node(point.start, point.end, tag), point.index)]

\* The insertion of the new nodes, last insertion point first.
RECURSIVE insert_new_nodes(_, _, _, _)
insert_new_nodes(node, points, j, tag) ==
    IF j = 0 THEN node
    ELSE insert_new_nodes(
             insert_new_node(node, points[j], tag,
                 try_merge_with_neighbors(node, points[j].start,
                     points[j].end, tag)),
             points, j - 1, tag)

\* The insertion point for what the loop left after the last child.
add_tag_rest(node, tag, b_prime, swept) ==
    insert_new_nodes([node EXCEPT !.ch = swept.ch],
        IF swept.current < b_prime
        THEN Append(swept.points, [index |-> Len(swept.ch),
                                   start |-> swept.current, end |-> b_prime])
        ELSE swept.points,
        IF swept.current < b_prime THEN Len(swept.points) + 1
        ELSE Len(swept.points),
        tag)

\* add_tag_dfs from the first relevant child i on.
add_tag_from(node, tag, a_prime, b_prime, i) ==
    IF i < Len(node.ch) /\ a_prime < node.ch[i + 1].s
    THEN add_tag_rest(node, tag, b_prime,
             add_tag_children(node.ch, tag, b_prime, i,
                 Min(b_prime, node.ch[i + 1].s),
                 <<[index |-> i, start |-> a_prime,
                    end |-> Min(b_prime, node.ch[i + 1].s)]>>))
    ELSE add_tag_rest(node, tag, b_prime,
             add_tag_children(node.ch, tag, b_prime, i, a_prime, <<>>))

add_tag_unmerged(node, tag, a_prime, b_prime, merge) ==
    IF merge.merged THEN merge.node
    ELSE add_tag_from(node, tag, a_prime, b_prime,
             first_relevant_child(node.ch,
                 find_insertion_point(node.ch, a_prime), a_prime))

add_tag_in(node, tag, a_prime, b_prime) ==
    IF a_prime >= b_prime THEN node
    ELSE IF node.tag # NoTag /\ node.tag = tag THEN node
    ELSE IF Len(node.ch) = 0
    THEN [node EXCEPT !.ch = <<create_interval_node(a_prime, b_prime, tag)>>]
    ELSE add_tag_unmerged(node, tag, a_prime, b_prime,
             try_merge_with_neighbors(node, a_prime, b_prime, tag))

add_tag_dfs(node, tag, a, b) ==
    add_tag_in(node, tag, Max(a, node.s), Min(b, node.e))

add_tag(root, tag, a, b) == add_tag_dfs(root, tag, a, b)

\* A RemoveTagResult together with the node as the call leaves it in
\* memory.  ub: the call wrote behind the end of a to_remove array.
RemoveTagResult(node, removed, state, rem0, rem1, rehook, u) ==
    [node |-> node, removed |-> removed, state |-> state,
     rem0 |-> rem0, rem1 |-> rem1, rehook |-> rehook, ub |-> u]

RECURSIVE remove_tag_dfs(_, _, _, _)
RECURSIVE remove_inside_children(_, _, _, _, _, _)
RECURSIVE remove_side_children(_, _, _, _, _, _, _, _)
RECURSIVE remove_entire_children(_, _, _, _, _, _, _)
RECURSIVE remove_tag_children(_, _, _, _, _, _, _, _, _, _)

\* Case 1, after the call on a child that overlaps the removed part.
remove_inside_child(acc, child_result) ==
    IF child_result.state \in {"REMOVE-ENTIRE-NODE", "REMOVE-INTERVAL-INSIDE"}
    THEN [acc EXCEPT !.rehook = @ \o child_result.rehook,
                     !.ub = @ \/ child_result.ub]
    ELSE [acc EXCEPT !.inside = Append(@, child_result.node),
                     !.ub = @ \/ child_result.ub]

\* Case 1, the loop that sorts the children into before, inside and after.
remove_inside_children(children, tag, a_prime, b_prime, i, acc) ==
    IF ~(i < Len(children)) THEN acc
    ELSE IF children[i + 1].e <= a_prime
    THEN remove_inside_children(children, tag, a_prime, b_prime, i + 1,
             [acc EXCEPT !.before = Append(@, children[i + 1])])
    ELSE IF children[i + 1].s >= b_prime
    THEN remove_inside_children(children, tag, a_prime, b_prime, i + 1,
             [acc EXCEPT !.after = Append(@, children[i + 1])])
    ELSE remove_inside_children(children, tag, a_prime, b_prime, i + 1,
             remove_inside_child(acc,
                 remove_tag_dfs(children[i + 1], tag, a_prime, b_prime)))

remove_interval_inside(node, tag, b, a_prime, b_prime, acc) ==
    RemoveTagResult(node, TRUE, "REMOVE-INTERVAL-INSIDE", b, b,
        acc.rehook
        \o (IF a_prime > node.s
            THEN <<[s |-> node.s, e |-> a_prime, tag |-> tag,
                    ch |-> acc.before]>>
            ELSE acc.before)
        \o acc.inside
        \o (IF b_prime < node.e
            THEN <<[s |-> b_prime, e |-> node.e, tag |-> tag,
                    ch |-> acc.after]>>
            ELSE acc.after),
        acc.ub)

\* Cases 2 and 3: the rehook nodes j.. of a child that was removed whole
\* which lie outside the removed part are inserted into the child array,
\* and the recorded indices at or after each insertion move up by one.
RECURSIVE insert_side_rehooks(_, _, _, _, _, _, _)
insert_side_rehooks(children, to_remove, rehook, j, left, a_prime, b_prime) ==
    IF j > Len(rehook) THEN [ch |-> children, to_remove |-> to_remove]
    ELSE IF (IF left THEN rehook[j].s >= b_prime ELSE rehook[j].e <= a_prime)
    THEN insert_side_rehooks(
             insert_node_at_position(children, rehook[j],
                 find_insertion_point(children, rehook[j].s)),
             [k \in 1..Len(to_remove) |->
                 IF to_remove[k] >= find_insertion_point(children, rehook[j].s)
                 THEN to_remove[k] + 1 ELSE to_remove[k]],
             rehook, j + 1, left, a_prime, b_prime)
    ELSE insert_side_rehooks(children, to_remove, rehook, j + 1, left,
             a_prime, b_prime)

\* Cases 2 and 3, after the call on a child that is partly inside the
\* removed part.
remove_side_child(children, tag, a_prime, b_prime, left, i, to_remove, u, child_result) ==
    IF child_result.removed /\ child_result.state = "REMOVE-ENTIRE-NODE"
    THEN [inserted |->
              insert_side_rehooks(
                  [children EXCEPT ![i + 1] = child_result.node],
                  Append(to_remove, i), child_result.rehook, 1, left,
                  a_prime, b_prime),
          ub |-> u \/ child_result.ub]
    ELSE [inserted |->
              [ch |-> [children EXCEPT ![i + 1] = child_result.node],
               to_remove |-> to_remove],
          ub |-> u \/ child_result.ub]

remove_side_next(next, tag, a_prime, b_prime, left, i) ==
    remove_side_children(next.inserted.ch, tag, a_prime, b_prime, left, i,
        next.inserted.to_remove, next.ub)

\* Case 2 (left = TRUE) and case 3 (left = FALSE): the loop over the child
\* array, which grows when rehook nodes are inserted.
remove_side_children(children, tag, a_prime, b_prime, left, i, to_remove, u) ==
    IF ~(i < Len(children))
    THEN [ch |-> children, to_remove |-> to_remove, ub |-> u]
    ELSE IF (IF left THEN children[i + 1].e <= b_prime
                     ELSE children[i + 1].s >= a_prime)
    THEN remove_side_children(children, tag, a_prime, b_prime, left, i + 1,
             Append(to_remove, i), u)
    ELSE IF (IF left THEN children[i + 1].s < b_prime
                     ELSE children[i + 1].e > a_prime)
    THEN remove_side_next(
             remove_side_child(children, tag, a_prime, b_prime, left, i,
                 to_remove, u,
                 remove_tag_dfs(children[i + 1], tag, a_prime,
                     IF left THEN b_prime ELSE children[i + 1].e)),
             tag, a_prime, b_prime, left, i + 1)
    ELSE remove_side_children(children, tag, a_prime, b_prime, left, i + 1,
             to_remove, u)

\* The removal of the recorded children, last recorded first.
RECURSIVE remove_recorded(_, _, _)
remove_recorded(children, to_remove, k) ==
    IF k = 0 THEN children
    ELSE remove_recorded(remove_node_at_position(children, to_remove[k]),
             to_remove, k - 1)

\* Cases 2 and 3: the node is cut and the recorded children go.  to_remove
\* has room for as many indices as the node had children.
remove_interval_side(node, left, a, b, a_prime, b_prime, lp) ==
    RemoveTagResult(
        [s |-> IF left THEN b_prime ELSE node.s,
         e |-> IF left THEN node.e ELSE a_prime,
         tag |-> node.tag,
         ch |-> remove_recorded(lp.ch, lp.to_remove, Len(lp.to_remove))],
        TRUE,
        IF left THEN "REMOVE-INTERVAL-LEFT" ELSE "REMOVE-INTERVAL-RIGHT",
        IF left THEN b_prime ELSE a,
        IF left THEN b ELSE a_prime,
        <<>>, lp.ub \/ Len(lp.to_remove) > Len(node.ch))

\* Case 4, after the call on a child that overlaps the removed part.
remove_entire_child(rehook, u, child_result) ==
    [rehook |-> IF child_result.removed
                THEN rehook \o child_result.rehook
                ELSE Append(rehook, child_result.node),
     ub |-> u \/ child_result.ub]

remove_entire_next(next, children, tag, a_prime, b_prime, i) ==
    remove_entire_children(children, tag, a_prime, b_prime, i, next.rehook,
        next.ub)

\* Case 4: the loop that builds the rehook list from the children.
remove_entire_children(children, tag, a_prime, b_prime, i, rehook, u) ==
    IF ~(i < Len(children)) THEN [rehook |-> rehook, ub |-> u]
    ELSE IF children[i + 1].s < b_prime /\ children[i + 1].e > a_prime
    THEN remove_entire_next(
             remove_entire_child(rehook, u,
                 remove_tag_dfs(children[i + 1], tag, a_prime, b_prime)),
             children, tag, a_prime, b_prime, i + 1)
    ELSE remove_entire_children(children, tag, a_prime, b_prime, i + 1,
             Append(rehook, children[i + 1]), u)

remove_entire_node(node, b, b_prime, lp) ==
    RemoveTagResult([node EXCEPT !.ch = <<>>], TRUE, "REMOVE-ENTIRE-NODE",
        b_prime, b, lp.rehook, lp.ub)

\* The insertion of the rehook nodes j.. into the child array of a node
\* without the tag.
RECURSIVE insert_rehooks(_, _, _)
insert_rehooks(children, rehook, j) ==
    IF j > Len(rehook) THEN children
    ELSE insert_rehooks(
             insert_node_at_position(children, rehook[j],
                 find_insertion_point(children, rehook[j].s)),
             rehook, j + 1)

\* The child at the cursor is shifted out of the array.
shift_out(children, i) ==
    SubSeq(children, 1, i) \o SubSeq(children, i + 2, Len(children))

\* The cursor is set anew once rehook nodes came into the array.
reset_position(children, a_prime) ==
    [ch |-> children,
     i |-> first_relevant_child(children,
               find_insertion_point(children, a_prime), a_prime)]

\* The child array and the cursor after a child that was removed or split
\* was taken out: the cursor is set anew only when rehook nodes came in.
remove_child_at(children, i, a_prime, rehook) ==
    IF Len(rehook) > 0
    THEN reset_position(insert_rehooks(shift_out(children, i), rehook, 1),
             a_prime)
    ELSE [ch |-> shift_out(children, i), i |-> i]

\* The sweep, after the call on a child that reported a removal: the child
\* array and the cursor to go on with.
remove_tag_child(children, i, a_prime, child_result) ==
    IF child_result.state \in {"REMOVE-ENTIRE-NODE", "REMOVE-INTERVAL-INSIDE"}
    THEN remove_child_at(children, i, a_prime, child_result.rehook)
    ELSE [ch |-> [children EXCEPT ![i + 1] = child_result.node], i |-> i + 1]

\* The sweep from the cursor on after the call on the same node for the
\* remaining interval.
remove_tag_remaining(node, tag, a, b, a_prime, b_prime, i, u, remaining_result) ==
    remove_tag_children(remaining_result.node, remaining_result.node.ch, tag,
        a, b, a_prime, b_prime, i, TRUE, u \/ remaining_result.ub)

\* The sweep after a child reported a removal: the call on the same node
\* when the remaining interval is not empty, then the next iteration.
remove_tag_next(node, tag, a, b, a_prime, b_prime, u, rem0, rem1, next) ==
    IF rem0 < rem1
    THEN remove_tag_remaining(node, tag, a, b, a_prime, b_prime, next.i, u,
             remove_tag_dfs([node EXCEPT !.ch = next.ch], tag, rem0, rem1))
    ELSE remove_tag_children(node, next.ch, tag, a, b, a_prime, b_prime,
             next.i, TRUE, u)

\* The sweep, after the call on a child that overlaps the range.
remove_tag_called(node, children, tag, a, b, a_prime, b_prime, i, removed, u, child_result) ==
    IF ~child_result.removed
    THEN remove_tag_children(node,
             [children EXCEPT ![i + 1] = child_result.node], tag, a, b,
             a_prime, b_prime, i + 1, removed, u \/ child_result.ub)
    ELSE remove_tag_next(node, tag, a, b, a_prime, b_prime,
             u \/ child_result.ub, child_result.rem0, child_result.rem1,
             remove_tag_child(children, i, a_prime, child_result))

\* The sweep over the children of a node that does not carry the tag.
remove_tag_children(node, children, tag, a, b, a_prime, b_prime, i, removed, u) ==
    IF ~(i < Len(children))
    THEN [ch |-> children, removed |-> removed, ub |-> u]
    ELSE IF b_prime <= children[i + 1].s \/ a_prime >= children[i + 1].e
    THEN remove_tag_children(node, children, tag, a, b, a_prime, b_prime,
             i + 1, removed, u)
    ELSE remove_tag_called(node, children, tag, a, b, a_prime, b_prime, i,
             removed, u, remove_tag_dfs(children[i + 1], tag, a, b))

\* The nesting repair at the end of the sweep.
nest_children(children, node) ==
    [i \in 1..Len(children) |->
        [children[i] EXCEPT !.s = Max(children[i].s, node.s),
                            !.e = Min(children[i].e, node.e)]]

processed_children(node, a, b, b_prime, swept) ==
    RemoveTagResult([node EXCEPT !.ch = nest_children(swept.ch, node)],
        swept.removed, "PROCESSED_CHILDREN", Max(b_prime, a), b, <<>>,
        swept.ub)

remove_tag_in(node, tag, a, b, a_prime, b_prime) ==
    IF a_prime >= b_prime
    THEN RemoveTagResult(node, FALSE, "NO_OVERLAP", a, b, <<>>, FALSE)
    ELSE IF node.tag # NoTag /\ node.tag = tag
    THEN
        IF a_prime > node.s /\ b_prime < node.e
        THEN remove_interval_inside(node, tag, b, a_prime, b_prime,
                 remove_inside_children(node.ch, tag, a_prime, b_prime, 0,
                     [before |-> <<>>, inside |-> <<>>, after |-> <<>>,
                      rehook |-> <<>>, ub |-> FALSE]))
        ELSE IF a_prime <= node.s /\ b_prime < node.e
        THEN remove_interval_side(node, TRUE, a, b, a_prime, b_prime,
                 remove_side_children(node.ch, tag, a_prime, b_prime, TRUE,
                     0, <<>>, FALSE))
        ELSE IF a_prime > node.s /\ b_prime >= node.e
        THEN remove_interval_side(node, FALSE, a, b, a_prime, b_prime,
                 remove_side_children(node.ch, tag, a_prime, b_prime, FALSE,
                     0, <<>>, FALSE))
        ELSE remove_entire_node(node, b, b_prime,
                 remove_entire_children(node.ch, tag, a_prime, b_prime, 0,
                     <<>>, FALSE))
    ELSE processed_children(node, a, b, b_prime,
             remove_tag_children(node, node.ch, tag, a, b, a_prime, b_prime,
                 first_relevant_child(node.ch,
                     find_insertion_point(node.ch, a_prime), a_prime),
                 FALSE, FALSE))

remove_tag_dfs(node, tag, a, b) ==
    remove_tag_in(node, tag, a, b, Max(a, node.s), Min(b, node.e))

\* What remove_tag leaves: the tree in memory and the removed flag of the
\* result.
remove_tag_returned(result) ==
    [node |-> result.node, removed |-> result.removed, ub |-> result.ub]

remove_tag(root, tag, a, b) ==
    remove_tag_returned(remove_tag_dfs(root, tag, a, b))

RECURSIVE check_tag_dfs(_, _, _, _)
RECURSIVE check_tag_children(_, _, _, _, _)

check_tag_children(children, tag, a, b, i) ==
    IF ~(i < Len(children)) THEN FALSE
    ELSE IF b <= children[i + 1].s \/ a >= children[i + 1].e
    THEN check_tag_children(children, tag, a, b, i + 1)
    ELSE IF check_tag_dfs(children[i + 1], tag, a, b) THEN TRUE
    ELSE check_tag_children(children, tag, a, b, i + 1)

check_tag_dfs(node, tag, a, b) ==
    IF node.tag # NoTag /\ node.tag = tag /\ node.s <= a /\ node.e >= b
    THEN TRUE
    ELSE check_tag_children(node.ch, tag, a, b,
             first_relevant_child(node.ch, find_insertion_point(node.ch, a), a))

check_tag(root, tag, a, b) == check_tag_dfs(root, tag, a, b)

\* ------------------------------------------------------------------------
\* The program: a tree handle and the calls a client makes on it
\* ------------------------------------------------------------------------
RECURSIVE HasFreed(_)
HasFreed(node) ==
    \/ node.tag = FreedTag
    \/ \E i \in 1..Len(node.ch) : HasFreed(node.ch[i])

Call(op, tag, a, b, res) == [op |-> op, tag |-> tag, a |-> a, b |-> b, res |-> res]

Init ==
    /\ tree = createTaggedIntervalTree(DomStart, DomEnd)
    /\ last = Call("create", NoTag, DomStart, DomEnd, FALSE)
    /\ nops = 0
    /\ ub = FALSE

\* addTag(tree, tag, a, b) called by the client, as one of at most max calls.
AddTagWithin(max) ==
    /\ nops < max
    /\ \E tag \in Tags, a \in Coords, b \in Coords :
        /\ a < b
        /\ tree' = addTag(tree, tag, a, b)
        /\ last' = Call("add", tag, a, b, FALSE)
    /\ nops' = nops + 1
    /\ UNCHANGED ub

\* removeTag(tree, tag, a, b) called by the client.  When the call reads
\* freed memory, what it reads is any of the Garbage values.
RemoveTagWithin(max) ==
    /\ nops < max
    /\ \E tag \in Tags, a \in Coords, b \in Coords :
        /\ a < b
        /\ LET r0 == removeTag(tree, tag, a, b, DomStart) IN
           \E g \in (IF r0.ub THEN Garbage ELSE {DomStart}) :
              LET r == IF g = DomStart THEN r0
                       ELSE removeTag(tree, tag, a, b, g)
              IN /\ tree' = r.node
                 /\ last' = Call("remove", tag, a, b, r.removed)
                 /\ ub' = (ub \/ r.ub \/ HasFreed(r.node))
    /\ nops' = nops + 1

AddTag == AddTagWithin(MaxOps)
RemoveTag == RemoveTagWithin(MaxOps)

Next == AddTag \/ RemoveTag

Spec == Init /\ [][Next]_vars

\* The same program run for longer call sequences.
AddTagDeep == AddTagWithin(MaxOpsDeep)
RemoveTagDeep == RemoveTagWithin(MaxOpsDeep)

NextDeep == AddTagDeep \/ RemoveTagDeep

SpecDeep == Init /\ [][NextDeep]_vars

\* The same program with every call observed: last.res holds the tree the
\* call was made on, the flag it returned and the removeTagDFS invocations
\* it made.
Observed(before, removed, calls) ==
    [before |-> before, removed |-> removed, calls |-> calls]

AddTagObserved ==
    /\ nops < MaxOpsObserved
    /\ \E tag \in Tags, a \in Coords, b \in Coords :
        /\ a < b
        /\ tree' = addTag(tree, tag, a, b)
        /\ last' = Call("add", tag, a, b, Observed(tree, FALSE, <<>>))
    /\ nops' = nops + 1
    /\ UNCHANGED ub

RemoveTagObserved ==
    /\ nops < MaxOpsObserved
    /\ \E tag \in Tags, a \in Coords, b \in Coords :
        /\ a < b
        /\ LET r0 == removeTag(tree, tag, a, b, DomStart) IN
           \E g \in (IF r0.ub THEN Garbage ELSE {DomStart}) :
              LET r == IF g = DomStart THEN r0
                       ELSE removeTag(tree, tag, a, b, g)
              IN /\ tree' = r.node
                 /\ last' = Call("remove", tag, a, b,
                                 Observed(tree, r.removed, r.calls))
                 /\ ub' = (ub \/ r.ub \/ HasFreed(r.node))
    /\ nops' = nops + 1

NextObserved == AddTagObserved \/ RemoveTagObserved

SpecObserved == Init /\ [][NextObserved]_vars

\* A client with three tags, as main has, that tags the whole domain and
\* removes a tag from any range.
TagsOfLayers == Tags \cup {"z"}

AddTagLayer ==
    /\ nops < MaxOpsLayers
    /\ \E tag \in TagsOfLayers :
        /\ tree' = addTag(tree, tag, tree.s, tree.e)
        /\ last' = Call("add", tag, tree.s, tree.e,
                        Observed(tree, FALSE, <<>>))
    /\ nops' = nops + 1
    /\ UNCHANGED ub

RemoveTagLayer ==
    /\ nops < MaxOpsLayers
    /\ \E tag \in TagsOfLayers, a \in Coords, b \in Coords :
        /\ a < b
        /\ LET r0 == removeTag(tree, tag, a, b, DomStart) IN
           \E g \in (IF r0.ub THEN Garbage ELSE {DomStart}) :
              LET r == IF g = DomStart THEN r0
                       ELSE removeTag(tree, tag, a, b, g)
              IN /\ tree' = r.node
                 /\ last' = Call("remove", tag, a, b,
                                 Observed(tree, r.removed, r.calls))
                 /\ ub' = (ub \/ r.ub \/ HasFreed(r.node))
    /\ nops' = nops + 1

NextLayers == AddTagLayer \/ RemoveTagLayer

SpecLayers == Init /\ [][NextLayers]_vars

\* The program on a tree over [a, DomEnd) for each a of DomStarts, with the
\* text of the domain formatted at any moment: one character for every
\* position of the domain.
DomStarts == {DomStart, DomStart + 1}

TextOf(root) == [p \in 1..(root.e - root.s) |-> Character(p - 1)]

InitText ==
    /\ \E a \in DomStarts :
        /\ tree = createTaggedIntervalTree(a, DomEnd)
        /\ last = Call("create", NoTag, a, DomEnd, FALSE)
    /\ nops = 0
    /\ ub = FALSE

AddTagText == AddTagWithin(MaxOpsText)
RemoveTagText == RemoveTagWithin(MaxOpsText)

GetFormattedTextOfTree ==
    /\ last.op # "render"
    /\ \E formatted \in formattedTexts(tree, TextOf(tree)) :
        /\ last' = Call("render", NoTag, tree.s, tree.e, formatted)
        /\ ub' = (ub \/ formatted.outside)
    /\ UNCHANGED <<tree, nops>>

NextText == AddTagText \/ RemoveTagText \/ GetFormattedTextOfTree

SpecText == InitText /\ [][NextText]_vars

\* The same program with the address of every node kept in the node (field
\* addr).  The operators above update a node they keep with EXCEPT, which
\* keeps its address, and build a node they allocate without one; when the
\* call returns, the nodes without an address are those the call allocated
\* and each gets an address that no node of the tree has.
HasAddress(node) == "addr" \in DOMAIN node

\* The addresses of the nodes of a subtree, in preorder.
RECURSIVE AddressList(_)
RECURSIVE AddressListOfChildren(_, _)
AddressListOfChildren(ch, i) ==
    IF i > Len(ch) THEN <<>>
    ELSE AddressList(ch[i]) \o AddressListOfChildren(ch, i + 1)
AddressList(node) ==
    (IF HasAddress(node) THEN <<node.addr>> ELSE <<>>)
    \o AddressListOfChildren(node.ch, 1)

RECURSIVE MaxOf(_, _)
MaxOf(list, i) == IF i > Len(list) THEN 0 ELSE Max(list[i], MaxOf(list, i + 1))

RECURSIVE Allocate(_, _)
RECURSIVE AllocateChildren(_, _, _)
AllocateChildren(ch, i, next) ==
    IF i > Len(ch) THEN [ch |-> ch, next |-> next]
    ELSE LET r == Allocate(ch[i], next)
         IN AllocateChildren([ch EXCEPT ![i] = r.node], i + 1, r.next)
Allocate(node, next) ==
    IF node.tag = FreedTag THEN [node |-> node, next |-> next]
    ELSE LET addr == IF HasAddress(node) THEN node.addr ELSE next
             next1 == IF HasAddress(node) THEN next ELSE next + 1
             r == AllocateChildren(node.ch, 1, next1)
         IN [node |-> [s |-> node.s, e |-> node.e, tag |-> node.tag,
                       ch |-> r.ch, addr |-> addr],
             next |-> r.next]

WithAddresses(root) ==
    Allocate(root, MaxOf(AddressList(root), 1) + 1).node

InitHeap ==
    /\ tree = WithAddresses(createTaggedIntervalTree(DomStart, DomEnd))
    /\ last = Call("create", NoTag, DomStart, DomEnd, FALSE)
    /\ nops = 0
    /\ ub = FALSE

AddTagHeap ==
    /\ nops < MaxOpsHeap
    /\ \E tag \in Tags, a \in Coords, b \in Coords :
        /\ a < b
        /\ tree' = WithAddresses(addTag(tree, tag, a, b))
        /\ last' = Call("add", tag, a, b, FALSE)
    /\ nops' = nops + 1
    /\ UNCHANGED ub

RemoveTagHeap ==
    /\ nops < MaxOpsHeap
    /\ \E tag \in Tags, a \in Coords, b \in Coords :
        /\ a < b
        /\ LET r0 == removeTag(tree, tag, a, b, DomStart) IN
           \E g \in (IF r0.ub THEN Garbage ELSE {DomStart}) :
              LET r == IF g = DomStart THEN r0
                       ELSE removeTag(tree, tag, a, b, g)
              IN /\ tree' = WithAddresses(r.node)
                 /\ last' = Call("remove", tag, a, b, r.removed)
                 /\ ub' = (ub \/ r.ub \/ HasFreed(r.node))
    /\ nops' = nops + 1

NextHeap == AddTagHeap \/ RemoveTagHeap

SpecHeap == InitHeap /\ [][NextHeap]_vars

\* The same calls made on a tree of src/treeInterval.c and on a tree of
\* src/unnamed/part_000 over the same domain: other is the tree of
\* part_000 after the call, result and otherResult are what the call
\* returned on either side.
Variants(other, result, otherResult) ==
    [other |-> other, result |-> result, otherResult |-> otherResult]

InitVariants ==
    /\ tree = createTaggedIntervalTree(DomStart, DomEnd)
    /\ last = Call("create", NoTag, DomStart, DomEnd,
                   Variants(initialize_tree(DomStart, DomEnd), FALSE, FALSE))
    /\ nops = 0
    /\ ub = FALSE

AddTagBoth ==
    /\ nops < MaxOpsVariants
    /\ \E tag \in Tags, a \in Coords, b \in Coords :
        /\ a < b
        /\ tree' = addTag(tree, tag, a, b)
        /\ last' = Call("add", tag, a, b,
                        Variants(add_tag(last.res.other, tag, a, b),
                                 FALSE, FALSE))
    /\ nops' = nops + 1
    /\ UNCHANGED ub

RemoveTagBoth ==
    /\ nops < MaxOpsVariants
    /\ \E tag \in Tags, a \in Coords, b \in Coords :
        /\ a < b
        /\ LET r0 == removeTag(tree, tag, a, b, DomStart)
               o == remove_tag(last.res.other, tag, a, b)
           IN
           \E g \in (IF r0.ub THEN Garbage ELSE {DomStart}) :
              LET r == IF g = DomStart THEN r0
                       ELSE removeTag(tree, tag, a, b, g)
              IN /\ tree' = r.node
                 /\ last' = Call("remove", tag, a, b,
                                 Variants(o.node, r.removed, o.removed))
                 /\ ub' = (ub \/ r.ub \/ HasFreed(r.node) \/ o.ub)
    /\ nops' = nops + 1

HasTagBoth ==
    /\ nops < MaxOpsVariants
    /\ \E tag \in Tags, a \in Coords, b \in Coords :
        /\ a < b
        /\ last' = Call("has", tag, a, b,
                        Variants(last.res.other,
                                 hasTag(tree, tag, a, b),
                                 check_tag(last.res.other, tag, a, b)))
    /\ nops' = nops + 1
    /\ UNCHANGED <<tree, ub>>

NextVariants == AddTagBoth \/ RemoveTagBoth \/ HasTagBoth

SpecVariants == InitVariants /\ [][NextVariants]_vars

\* The four calls of the interface with arguments of any kind: ranges that
\* are empty, inverted, or partly or wholly outside the domain.
AddTagCall ==
    /\ nops < MaxCalls
    /\ \E tag \in Tags, a \in ArgCoords, b \in ArgCoords :
        /\ tree' = addTag(tree, tag, a, b)
        /\ last' = Call("add", tag, a, b, FALSE)
    /\ nops' = nops + 1
    /\ UNCHANGED ub

RemoveTagCall ==
    /\ nops < MaxCalls
    /\ \E tag \in Tags, a \in ArgCoords, b \in ArgCoords :
        LET r0 == removeTag(tree, tag, a, b, DomStart) IN
        \E g \in (IF r0.ub THEN Garbage ELSE {DomStart}) :
           LET r == IF g = DomStart THEN r0
                    ELSE removeTag(tree, tag, a, b, g)
           IN /\ tree' = r.node
              /\ last' = Call("remove", tag, a, b, r.removed)
              /\ ub' = (ub \/ r.ub \/ HasFreed(r.node))
    /\ nops' = nops + 1

HasTagCall ==
    /\ nops < MaxCalls
    /\ \E tag \in Tags, a \in ArgCoords, b \in ArgCoords :
        last' = Call("has", tag, a, b, hasTag(tree, tag, a, b))
    /\ nops' = nops + 1
    /\ UNCHANGED <<tree, ub>>

GetFormattedTextCall ==
    /\ nops < MaxCalls
    /\ \E result \in getFormattedText(tree, Text) :
        last' = Call("render", NoTag, DomStart, DomEnd, result)
    /\ nops' = nops + 1
    /\ UNCHANGED <<tree, ub>>

NextCalls == AddTagCall \/ RemoveTagCall \/ HasTagCall \/ GetFormattedTextCall

SpecCalls == Init /\ [][NextCalls]_vars

\* ------------------------------------------------------------------------
\* Vocabulary of the properties
\* ------------------------------------------------------------------------
RECURSIVE NodesOf(_)
NodesOf(node) ==
    {node} \cup UNION {NodesOf(node.ch[i]) : i \in 1..Len(node.ch)}

\* The nodes of a subtree in preorder, each as <<start, end, tag>>.
RECURSIVE NodeList(_)
RECURSIVE NodeListOfChildren(_, _)
NodeListOfChildren(ch, i) ==
    IF i > Len(ch) THEN <<>>
    ELSE NodeList(ch[i]) \o NodeListOfChildren(ch, i + 1)
NodeList(node) ==
    <<(<<node.s, node.e, node.tag>>)>> \o NodeListOfChildren(node.ch, 1)

Occurrences(list, x) == Cardinality({i \in 1..Len(list) : list[i] = x})

\* [s1, e1) and [s2, e2) have a point in common.
Intersects(s1, e1, s2, e2) == Max(s1, s2) < Min(e1, e2)

\* Some node carrying tag has an interval containing [c, d).
CoveredByOneNode(root, tag, c, d) ==
    \E n \in NodesOf(root) : n.tag = tag /\ n.s <= c /\ d <= n.e

\* Every point of [a, b) lies in the interval of a node carrying tag.  All
\* endpoints are integers, so the points of [a, b) are those of its unit
\* cells [p, p + 1).
RangeTagged(root, tag, a, b) ==
    \A p \in a..(b - 1) : CoveredByOneNode(root, tag, p, p + 1)

SiblingsDisjoint(root) ==
    \A n \in NodesOf(root) :
        \A i, j \in 1..Len(n.ch) : i < j => n.ch[i].e <= n.ch[j].s

SiblingsSorted(root) ==
    \A n \in NodesOf(root) :
        \A i \in 1..(Len(n.ch) - 1) : n.ch[i].s <= n.ch[i + 1].s

ChildrenNested(root) ==
    \A n \in NodesOf(root) :
        \A i \in 1..Len(n.ch) : n.s <= n.ch[i].s /\ n.ch[i].e <= n.e

NoMergeableSiblings(root) ==
    \A n \in NodesOf(root) :
        \A i \in 1..(Len(n.ch) - 1) :
            ~(n.ch[i].tag = n.ch[i + 1].tag /\ n.ch[i].e >= n.ch[i + 1].s)

\* The number of edges of the longest path from node down to a leaf.
RECURSIVE Height(_)
RECURSIVE HeightOfChildren(_, _)
HeightOfChildren(ch, i) ==
    IF i > Len(ch) THEN 0
    ELSE Max(1 + Height(ch[i]), HeightOfChildren(ch, i + 1))
Height(node) == HeightOfChildren(node.ch, 1)

RECURSIVE SumOf(_, _)
SumOf(list, i) == IF i > Len(list) THEN 0 ELSE list[i] + SumOf(list, i + 1)

\* The total length, inside [a, b), of the intervals of the nodes that
\* carry tag.
TaggedLength(root, tag, a, b) ==
    LET l == NodeList(root) IN
    SumOf([i \in 1..Len(l) |->
              IF l[i][3] = tag
              THEN Max(0, Min(b, l[i][2]) - Max(a, l[i][1])) ELSE 0], 1)

\* The invocations made[i], made[i + 1], ... and those they made, in the
\* order in which they were entered.  depth counts the invocations on the
\* call stack and continued those of them made for a remaining interval.
RECURSIVE FlatCalls(_, _, _, _)
FlatCalls(made, i, depth, continued) ==
    IF i > Len(made) THEN <<>>
    ELSE
    LET c == made[i].call
        more == IF made[i].via = "remaining" THEN 1 ELSE 0
    IN <<[s |-> c.entry.s, e |-> c.entry.e, nodeTag |-> c.entry.nodeTag,
          start |-> c.entry.start, end |-> c.entry.end,
          state |-> c.state, removed |-> c.removed,
          rem0 |-> c.rem0, rem1 |-> c.rem1,
          via |-> made[i].via, from |-> made[i].from,
          depth |-> depth + 1, continued |-> continued + more]>>
       \o FlatCalls(c.made, 1, depth + 1, continued + more)
       \o FlatCalls(made, i + 1, depth, continued)

\* The removeTagDFS invocations of the removeTag call a state of
\* SpecObserved was reached by.
Invocations ==
    IF last.op = "remove" THEN FlatCalls(last.res.calls, 1, 0, 0) ELSE <<>>

\* The characters of a formatted text, without its markers.
WithoutMarkers(text) == SelectSeq(text, LAMBDA piece : piece.kind = "char")

\* The tags open after the pieces text[i], text[i + 1], ... were read with
\* the tags of open (innermost last) open before them, or <<"bad">> when a
\* closing marker does not close the innermost open tag.
RECURSIVE OpenTags(_, _, _)
OpenTags(text, i, open) ==
    IF i > Len(text) THEN open
    ELSE IF text[i].kind = "open"
    THEN OpenTags(text, i + 1, Append(open, text[i].tag))
    ELSE IF text[i].kind = "close"
    THEN IF open # <<>> /\ open[Len(open)] = text[i].tag
         THEN OpenTags(text, i + 1, SubSeq(open, 1, Len(open) - 1))
         ELSE <<"bad">>
    ELSE OpenTags(text, i + 1, open)

\* Whether the sweep over the root's children called removeTagDFS on a
\* child with the interval and tag of n, and whether one such call ended in
\* one of the given states with removed = true.
InvokedOn(n) ==
    \E i \in 1..Len(Invocations) :
        /\ Invocations[i].depth = 2
        /\ Invocations[i].s = n.s /\ Invocations[i].e = n.e
        /\ Invocations[i].nodeTag = n.tag

RemovedOn(n, states) ==
    \E i \in 1..Len(Invocations) :
        /\ Invocations[i].depth = 2
        /\ Invocations[i].s = n.s /\ Invocations[i].e = n.e
        /\ Invocations[i].nodeTag = n.tag
        /\ Invocations[i].removed /\ Invocations[i].state \in states

\* How often a node occurs in a child list.
Count(list, c) == Cardinality({i \in 1..Len(list) : list[i] = c})

\* What stands in the place of a node n = [s, e) with the tag after [a, b)
\* inside it was removed: [s, a) with the children that end at or before a,
\* the children that overlap [a, b), and [b, e) with the children that start
\* at or after b.
InteriorRemoval(n, tag, a, b) ==
    <<[s |-> n.s, e |-> a, tag |-> tag,
       ch |-> SelectSeq(n.ch, LAMBDA c : c.e <= a)]>>
    \o SelectSeq(n.ch, LAMBDA c : c.e > a /\ c.s < b)
    \o <<[s |-> b, e |-> n.e, tag |-> tag,
          ch |-> SelectSeq(n.ch, LAMBDA c : c.s >= b)]>>

\* ------------------------------------------------------------------------
\* Claims
\* ------------------------------------------------------------------------

\* C1: immediately after addTag(tag, a, b) with A <= a < b <= B, on any tree
\* reached by addTag/removeTag calls, hasTag(tag, a, b) returns true.
C1_AddThenHasTag ==
    last.op = "add" => hasTag(tree, last.tag, last.a, last.b)

\* C2: after addTag(tag, a, b) returns, every point of [a, b) lies inside the
\* interval of at least one node carrying tag.
C2_AddedRangeTagged ==
    last.op = "add" => RangeTagged(tree, last.tag, last.a, last.b)

\* C3: round trip: removeTag(tag, a, b) called right after addTag(tag, a, b)
\* returns true, and afterwards hasTag(tag, a, b) returns false.
C3_RoundTrip ==
    [][(/\ last.op = "add"
        /\ last'.op = "remove"
        /\ last'.tag = last.tag
        /\ last'.a = last.a
        /\ last'.b = last.b)
       => (last'.res /\ ~hasTag(tree', last'.tag, last'.a, last'.b))]_vars

\* C4: after removeTag(tag, a, b) returns, no node carrying tag has an
\* interval that intersects [a, b).
C4_RemovedRangeUntagged ==
    last.op = "remove" =>
        \A n \in NodesOf(tree) :
            n.tag = last.tag => ~Intersects(n.s, n.e, last.a, last.b)

\* C5: removeTag(tag, a, b) never reduces coverage of tag outside [a, b): for
\* every non-empty [c, d) disjoint from [a, b), hasTag(tag, c, d) true before
\* the call is still true after it.
C5_RemoveKeepsOutsideCoverage ==
    [][last'.op = "remove" =>
        \A c, d \in Coords :
            (/\ c < d
             /\ (d <= last'.a \/ c >= last'.b)
             /\ hasTag(tree, last'.tag, c, d))
            => hasTag(tree', last'.tag, c, d)]_vars

\* C6: removeTag(tag, a, b) never destroys or shrinks a node carrying another
\* tag: every such node of the tree before the call is in the tree after it
\* with the same tag and interval, and hasTag(u, c, d) is unchanged for every
\* tag u different from tag and every range.
C6_RemoveKeepsOtherTags ==
    [][last'.op = "remove" =>
        /\ \A k \in 1..Len(NodeList(tree)) :
              LET x == NodeList(tree)[k] IN
              x[3] # last'.tag =>
                  Occurrences(NodeList(tree'), x) >= Occurrences(NodeList(tree), x)
        /\ \A u \in Tags \ {last'.tag} : \A c, d \in Coords :
              c < d => (hasTag(tree', u, c, d) <=> hasTag(tree, u, c, d))]_vars

\* C7: after every addTag or removeTag call, no two children of a node have
\* overlapping intervals: a child listed before another ends at or before the
\* start of the other.
C7_SiblingsDisjoint == SiblingsDisjoint(tree)

\* C8: after every addTag or removeTag call, the children of every node are
\* in ascending order of interval start.
C8_SiblingsSorted == SiblingsSorted(tree)

\* C9: after every addTag or removeTag call, the interval of every non-root
\* node is contained in the interval of its parent.
C9_ChildrenNested == ChildrenNested(tree)

\* C10: after every addTag or removeTag call, no node has two adjacent
\* children that carry the same tag and are contiguous or overlapping.
C10_NoMergeableSiblings == NoMergeableSiblings(tree)

\* C11: after every addTag or removeTag call, every node of the tree has an
\* interval with start < end, also after removal has clipped the children of
\* a node to the node's interval.
C11_IntervalsNonEmpty ==
    \A n \in NodesOf(tree) : n.s < n.e

\* C12: after any sequence of addTag, removeTag, hasTag and getFormattedText
\* calls, whatever their arguments, the interval of the root is the domain
\* given to createTaggedIntervalTree and the root carries no tag.
C12_RootUnchanged ==
    /\ tree.s = DomStart
    /\ tree.e = DomEnd
    /\ tree.tag = NoTag

\* A tree that calls with ranges reaching outside the domain have worked
\* on: a removeTag from before the start of the domain has removed and has
\* left a node that an addTag up to the end of the domain or beyond made.
C12_Witness ==
    /\ last.op = "remove"
    /\ last.res
    /\ last.a < DomStart
    /\ tree.ch # <<>>
    /\ tree.ch[Len(tree.ch)].e = DomEnd

C14_AddIdempotent ==
    [][(/\ last.op = "add"
        /\ last'.op = "add"
        /\ last'.tag = last.tag
        /\ last'.a = last.a
        /\ last'.b = last.b)
       => tree' = tree]_vars

\* C15: merge law: on a fresh tree, addTag(x, a, b) and addTag(x, b, c) with
\* a < b < c in the domain, called in either order, leave the root with
\* exactly one child, which carries x, spans [a, c) and has no children.
C15_MergeLaw ==
    [][(/\ nops = 1
        /\ last.op = "add"
        /\ last'.op = "add"
        /\ last'.tag = last.tag
        /\ (last.b = last'.a \/ last'.b = last.a))
       => tree'.ch = <<createIntervalNode(Min(last.a, last'.a),
                                          Max(last.b, last'.b), last.tag)>>]_vars

\* The second of two such calls has returned: the one child of the root
\* starts before the range of the last call and ends where that ends.
C15_Witness ==
    /\ nops = 2
    /\ last.op = "add"
    /\ Len(tree.ch) = 1
    /\ tree.ch[1].tag = last.tag
    /\ tree.ch[1].s < last.a
    /\ tree.ch[1].e = last.b

\* C16: on every tree reached by addTag/removeTag calls and for every
\* a < b: if some node carrying tag has an interval containing [a, b), then
\* hasTag(tag, a, b) returns true.
C16_HasTagFindsCoveringNode ==
    \A tag \in Tags : \A a, b \in Coords :
        (a < b /\ CoveredByOneNode(tree, tag, a, b)) => hasTag(tree, tag, a, b)

\* C17: hasTag(tag, a, b) returns true only if one single node carrying tag
\* has an interval containing [a, b): a range that tag covers in part only,
\* or only by several nodes together, is answered with false.
C17_HasTagNeedsOneNode ==
    \A tag \in Tags : \A a, b \in Coords :
        (a < b /\ hasTag(tree, tag, a, b)) => CoveredByOneNode(tree, tag, a, b)

\* A range that nodes carrying tag cover only together, point by point, and
\* that hasTag answers with false.
C17_Witness ==
    \E tag \in Tags : \E a, b \in Coords :
        /\ a < b
        /\ RangeTagged(tree, tag, a, b)
        /\ ~CoveredByOneNode(tree, tag, a, b)
        /\ ~hasTag(tree, tag, a, b)

\* C18: removeTag(tag, a, b) returns true if and only if, right before the
\* call, at least one node carrying tag has an interval that intersects
\* [a, b) clipped to the domain.
C18_RemoveResult ==
    [][last'.op = "remove" =>
        (last'.res <=>
            \E n \in NodesOf(tree) :
                /\ n.tag = last'.tag
                /\ Intersects(n.s, n.e, Max(last'.a, DomStart), Min(last'.b, DomEnd)))]_vars

\* C19: addTag and removeTag depend only on the part of [a, b) inside the
\* domain: a call has the effect and the result of the call with the range
\* clipped to the domain, and when a >= b or [a, b) does not intersect the
\* domain, addTag leaves the tree unchanged and removeTag leaves the tree
\* unchanged and returns false.
C19_OnlyTheDomainPartCounts ==
    [][LET a == Max(last'.a, DomStart)
           b == Min(last'.b, DomEnd)
       IN /\ last'.op = "add" =>
                /\ tree' = addTag(tree, last'.tag, a, b)
                /\ a >= b => tree' = tree
          /\ last'.op = "remove" =>
                /\ tree' = removeTag(tree, last'.tag, a, b, DomStart).node
                /\ last'.res = removeTag(tree, last'.tag, a, b, DomStart).removed
                /\ a >= b => (tree' = tree /\ ~last'.res)]_vars

\* A call whose range reaches outside the domain on both sides has acted:
\* addTag has tagged the whole domain.
C19_Witness ==
    /\ last.op = "add"
    /\ last.a < DomStart
    /\ last.b > DomEnd
    /\ CoveredByOneNode(tree, last.tag, DomStart, DomEnd)

\* C20: hasTag(tag, a, b) returns false whenever a >= b, for every tree and
\* every tag.
C20_HasTagOfEmptyRange ==
    (last.op = "has" /\ last.a >= last.b) => ~last.res

\* C21: removeTag terminates on every reachable tree and every (tag, a, b).
\* On a tree of n nodes and height h in which the nodes carrying tag cover a
\* total length d of [a, b), the call stack of removeTagDFS never holds more
\* than h + 1 invocations made on a node or one of its children together
\* with b - a - 1 continuations on the same node for a remaining interval,
\* and the call makes at most (n + d) * (1 + d * (h + 1)) invocations in all
\* (one pass over at most n + d nodes, started again at most h + 1 times for
\* each unit of length it removes).
C21_RemoveTerminates ==
    last.op = "remove" =>
        LET before == last.res.before
            n == Len(NodeList(before))
            h == Height(before)
            d == TaggedLength(before, last.tag, last.a, last.b)
        IN /\ \A i \in 1..Len(Invocations) :
                /\ Invocations[i].depth - Invocations[i].continued <= h + 1
                /\ Invocations[i].continued <= last.b - last.a - 1
           /\ Len(Invocations) <= (n + d) * (1 + d * (h + 1))

\* A call whose sweep took a child out of the array, reset its cursor and
\* went on with the remaining interval on the same node.
C21_Witness ==
    /\ last.op = "remove"
    /\ \E i, j \in 1..Len(Invocations) :
        /\ i < j
        /\ Invocations[i].via = "sweep"
        /\ Invocations[i].state \in {REMOVE_ENTIRE_NODE, REMOVE_INTERVAL_INSIDE}
        /\ Invocations[j].via = "remaining"
        /\ Invocations[j].depth = Invocations[i].depth
    /\ Len(last.res.before.ch) > Len(tree.ch)

\* C22: in the marker list that getFormattedText builds, positions are
\* non-decreasing and, among the markers at one position, every closing
\* marker comes before every opening marker.
C22_MarkersSorted ==
    last.op = "render" =>
        LET markers == last.res.markers IN
        \A i, j \in 1..Len(markers) :
            i < j =>
                /\ markers[i].position <= markers[j].position
                /\ markers[i].position = markers[j].position
                       => ~(markers[i].isOpening /\ ~markers[j].isOpening)

\* A marker list with a closing and an opening marker at one position, and
\* with markers at a later position.
C22_Witness ==
    /\ last.op = "render"
    /\ LET markers == last.res.markers
       IN /\ \E i, j \in 1..Len(markers) :
               /\ markers[i].position = markers[j].position
               /\ markers[i].isOpening /\ ~markers[j].isOpening
          /\ \E i, j \in 1..Len(markers) :
               markers[i].position < markers[j].position

\* C23: for a tree over any domain [A, B) and a text of length B - A, the
\* result of getFormattedText without its markers is the text, and no
\* character outside the text is read.
C23_TextKept ==
    last.op = "render" =>
        /\ ~last.res.outside
        /\ WithoutMarkers(last.res.text) = TextOf(tree)

\* C24: the result of getFormattedText is properly nested: every closing
\* marker closes the innermost tag that is open, and no tag stays open
\* (stated for the calls that read nothing outside the text).
C24_ProperlyNested ==
    (last.op = "render" /\ ~last.res.outside) =>
        OpenTags(last.res.text, 1, <<>>) = <<>>

\* C25: an invocation of removeTagDFS that reports removed = true carries an
\* empty remaining interval with the states REMOVE_INTERVAL_INSIDE,
\* REMOVE_INTERVAL_LEFT and REMOVE_INTERVAL_RIGHT and a remaining interval
\* [r, end) with r > start with REMOVE_ENTIRE_NODE and PROCESSED_CHILDREN;
\* an invocation for a remaining interval starts after the start of the
\* invocation that made it.
C25_RemainingInterval ==
    \A i \in 1..Len(Invocations) :
        LET c == Invocations[i] IN
        /\ (c.removed /\ c.state \in {REMOVE_INTERVAL_INSIDE,
                                       REMOVE_INTERVAL_LEFT,
                                       REMOVE_INTERVAL_RIGHT})
               => c.rem0 >= c.rem1
        /\ (c.removed /\ c.state \in {REMOVE_ENTIRE_NODE, PROCESSED_CHILDREN})
               => (c.rem0 > c.start /\ c.rem1 = c.end)
        /\ c.via = "remaining" => c.start > c.from

\* A call in which a node went as a whole, another was cut on its left and
\* the sweep went on for a remaining interval.
C25_Witness ==
    /\ \E i \in 1..Len(Invocations) :
          Invocations[i].removed /\ Invocations[i].state = REMOVE_ENTIRE_NODE
    /\ \E i \in 1..Len(Invocations) :
          Invocations[i].removed /\ Invocations[i].state = REMOVE_INTERVAL_LEFT
    /\ \E i \in 1..Len(Invocations) :
          Invocations[i].via = "remaining" /\ Invocations[i].removed
    /\ \E i \in 1..Len(Invocations) :
          /\ Invocations[i].state = PROCESSED_CHILDREN
          /\ Invocations[i].removed
          /\ Invocations[i].rem0 < Invocations[i].rem1

\* C28: no node carries the tag of one of its proper ancestors, and while
\* removeTagDFS handles a node that carries the removed tag, no invocation
\* on a child reports REMOVE_ENTIRE_NODE, REMOVE_INTERVAL_INSIDE or
\* removed = true.
C28_NoTagBelowItself ==
    /\ \A n \in NodesOf(tree) :
          n.tag # NoTag =>
              \A m \in NodesOf(n) : m # n => m.tag # n.tag
    /\ \A i \in 1..Len(Invocations) :
          Invocations[i].via = "case" =>
              /\ ~Invocations[i].removed
              /\ Invocations[i].state \notin {REMOVE_ENTIRE_NODE,
                                              REMOVE_INTERVAL_INSIDE}

\* A call that cut a node with a child inside the removed part, the child
\* itself with a child that overlaps the removed part.
C28_Witness ==
    \E i, j \in 1..Len(Invocations) :
        /\ i < j
        /\ Invocations[i].via = "case"
        /\ Invocations[i].state = PROCESSED_CHILDREN
        /\ Invocations[j].depth = Invocations[i].depth + 1
        /\ Invocations[j].state = PROCESSED_CHILDREN

\* C29: a removeTag call that returns false leaves the tree exactly as it
\* was before the call.
C29_FalseLeavesTree ==
    (last.op = "remove" /\ ~last.res.removed) => tree = last.res.before

\* C26: when removeTag(tag, a, b) reaches a child n = [s, e) of the root that
\* carries the tag, with s < a and b < e, then in the root's child list n is
\* replaced by [s, a) with n's children that end at or before a, n's
\* children that overlap [a, b), and [b, e) with n's children that start at
\* or after b, and the invocation on n reports REMOVE_INTERVAL_INSIDE with
\* removed = true.
C26_InteriorRemoval ==
    last.op = "remove" =>
        LET before == last.res.before IN
        \A k \in 1..Len(before.ch) :
            LET n == before.ch[k] IN
            (n.tag = last.tag /\ n.s < last.a /\ last.b < n.e /\ InvokedOn(n))
                => /\ tree.ch = SubSeq(before.ch, 1, k - 1)
                                 \o InteriorRemoval(n, last.tag, last.a, last.b)
                                 \o SubSeq(before.ch, k + 1, Len(before.ch))
                   /\ RemovedOn(n, {REMOVE_INTERVAL_INSIDE})
                   /\ last.res.removed

\* C27: when removeTag(tag, a, b) reaches a child n of the root that carries
\* the tag and lies within [a, b), the invocation on n reports
\* REMOVE_ENTIRE_NODE and every child of n is a child of the root after the
\* call, with its interval, tag and subtree as before, neither lost nor
\* duplicated.
C27_FullRemoval ==
    last.op = "remove" =>
        LET before == last.res.before IN
        \A k \in 1..Len(before.ch) :
            LET n == before.ch[k] IN
            (n.tag = last.tag /\ last.a <= n.s /\ n.e <= last.b /\ InvokedOn(n))
                => /\ RemovedOn(n, {REMOVE_ENTIRE_NODE})
                   /\ \A j \in 1..Len(n.ch) :
                        /\ Count(tree.ch, n.ch[j]) >= Count(n.ch, n.ch[j])
                        /\ Count(tree.ch, n.ch[j])
                              <= Count(n.ch, n.ch[j]) + Count(before.ch, n.ch[j])

\* C30: on integer ranges inside the domain the program of
\* src/treeInterval.c and the one of src/unnamed/part_000 stay equivalent:
\* after every sequence of add, remove and has calls made on both, the two
\* trees have the same intervals, tags and child order, and the last call
\* returned the same result on both.
C30_VariantsAgree ==
    ~ub => /\ last.res.other = tree
           /\ last.res.result = last.res.otherResult

====
